---- MODULE Spec2Model ----
(***************************************************************************)
(* Model of the campaign orchestrator of src/automation.py                 *)
(* (CampaignOrchestrator): the job queue, the queue worker, the per-job    *)
(* tasks, the 24-hour monitor, pause/resume and the per-lead eligibility   *)
(* gate, under asyncio's cooperative scheduling.  One action is one        *)
(* await-free segment of a coroutine: a coroutine is only interleaved with *)
(* others where it awaits something that can suspend (asyncio.sleep,       *)
(* Queue.get, the generative call, the send call).  The record-store calls *)
(* of src/database.py are `async def` around synchronous client calls and  *)
(* never suspend, so they belong to the segment that makes them.           *)
(*                                                                         *)
(* Time is counted in hours.  Scores are tenths (0.7 is 7).                *)
(***************************************************************************)
EXTENDS Integers, Sequences, FiniteSets, TLC

\* ---- bounds of the model ----
\* jobs created by start_campaign, tasks created by the worker
MaxJobs == 2
MaxTasks == 2
\* the clock runs from 0 to MaxTime in steps of TickHours
MaxTime == 25
TickHours == 25

\* ---- configuration (src/config.py) ----
\* BATCH_SIZE and MAX_CONCURRENT_CAMPAIGNS are read from the environment; the
\* values here are small ones a deployment can set
batch_size == 2
max_concurrent_campaigns == 1
\* LEAD_SCORE_THRESHOLD 0.7, in tenths
lead_score_threshold == 7
follow_up_delay_hours == 48
\* `if running_time > 24` in _monitor_active_jobs
JobTimeoutHours == 24

None == "none"
\* a lead_score that is None
NoScore == 0 - 1
\* a datetime field that is None
NoTime == 0 - 1
Campaigns == {"c1", "c2"}
Leads == {"l1", "l2", "l3"}
LeadOrder == <<"l1", "l2", "l3">>
JobIds == 1..(MaxJobs + 1)

VARIABLES
    is_running,     \* CampaignOrchestrator.is_running
    now,            \* datetime.utcnow(), in hours
    jobs,           \* all CampaignJob objects ever created, in creation order
    active_jobs,    \* self.active_jobs: job_id -> index into jobs (0: no entry)
    job_queue,      \* self.job_queue: sequence of indexes into jobs
    tasks,          \* the _execute_campaign_job tasks created so far
    workerPc,       \* position of the _process_job_queue task
    monitorPc,      \* position of the _monitor_active_jobs task
    stopPc,         \* position of a caller inside stop()
    leadRec,        \* the stored Lead documents (the fields the gate reads)
    leadStatus,     \* the stored status of each Lead document
    sendLog,        \* history: <<job, lead>> for which the send succeeded
    delayHours,     \* eligibility-gate study: configured follow_up_delay_hours
    gateIn,         \* eligibility-gate study: the inputs of the call
    gateOut         \* eligibility-gate study: the value returned

\* EmailPersonalizationEngine (src/ai_engine.py)
VARIABLES
    eclock,                 \* time.time() / datetime.utcnow(), in half seconds
    last_api_call,          \* self.last_api_call
    daily_api_calls,        \* self.daily_api_calls
    request_cache,          \* self.request_cache: key -> entry
    personalization_cache,  \* self.personalization_cache: key -> timestamp
    calls,                  \* the personalize_email calls made so far
    genLog,                 \* history: the invocations of the generative service
    invokedSinceReset       \* history: invocations since reset_daily_counter

engineVars == <<eclock, last_api_call, daily_api_calls, request_cache,
                personalization_cache, calls, genLog, invokedSinceReset>>

\* lead scoring (LeadScoringEngine and AIEngine.score_lead, src/ai_engine.py)
VARIABLES
    scoreIn,    \* the lead, the loaded model and scaler, and what the services return
    mlOut,      \* the LeadScore LeadScoringEngine.score_lead returned
    aiOut       \* the LeadScore AIEngine.score_lead returned

scoreVars == <<scoreIn, mlOut, aiOut>>

\* the response parsers, the response analysis, the feature extraction and
\* the email generation, each studied as one call
VARIABLES
    callIn,     \* the arguments of the call and what the services it uses return
    callOut     \* what the call returned or raised

callVars == <<callIn, callOut>>

vars == <<is_running, now, jobs, active_jobs, job_queue, tasks, workerPc,
          monitorPc, stopPc, leadRec, leadStatus, sendLog, delayHours,
          gateIn, gateOut, engineVars, scoreVars, callVars>>

orchVars == <<is_running, now, jobs, active_jobs, job_queue, tasks, workerPc,
              monitorPc, stopPc, leadRec, leadStatus, sendLog>>

gateVars == <<delayHours, gateIn, gateOut>>

storeVars == <<leadRec, leadStatus>>

logVars == <<sendLog>>

Min(a, b) == IF a < b THEN a ELSE b

\* ---- the eligibility gate (_should_process_lead) ----

\* timedelta.days: whole days, rounded down
Days(hours) == hours \div 24

\* days < follow_up_delay_hours / 24 compares an integer with a float
DaysBelowDelay(days, delay) == days * 24 < delay

\* `lead.lead_score < threshold` raises TypeError on a score that is None;
\* the `except Exception` of line 277 turns that into False
ScoreBelow(score, threshold) ==
    IF score = NoScore THEN TRUE ELSE score < threshold

ShouldProcessLead(lead, campaign_id, delay, t) ==
    IF lead.campaign_id # None /\ lead.campaign_id # campaign_id THEN FALSE
    ELSE IF lead.last_contacted # NoTime
            /\ DaysBelowDelay(Days(t - lead.last_contacted), delay) THEN FALSE
    ELSE IF ScoreBelow(lead.lead_score, lead_score_threshold) THEN FALSE
    ELSE TRUE

\* ---- helpers over the job table ----

NewJob(id, c, t) ==
    [job_id |-> id, campaign_id |-> c, status |-> "pending",
     created_at |-> t, started_at |-> NoTime, completed_at |-> NoTime,
     progress |-> [total_leads |-> 0, processed |-> 0, emails_sent |-> 0],
     error_message |-> None]

JobIdx == 1..Len(jobs)

\* the job objects reachable through self.active_jobs.values()
ActiveObjs(act) == {act[i] : i \in JobIds} \ {0}

RunningCount(js, act) ==
    Cardinality({j \in ActiveObjs(act) : js[j].status = "running"})

\* `if job.job_id in self.active_jobs: del self.active_jobs[job.job_id]`
RemoveActive(act, id) == [act EXCEPT ![id] = 0]

\* a stored lead that passes the gate of every campaign
FreshLead == [campaign_id |-> None, last_contacted |-> NoTime, lead_score |-> 8]

\* stored leads the gate has a reason to skip, and one it has not
LeadProfiles ==
    { FreshLead,
      [campaign_id |-> "c2", last_contacted |-> NoTime, lead_score |-> 8],
      [campaign_id |-> None, last_contacted |-> 0, lead_score |-> 8],
      [campaign_id |-> None, last_contacted |-> NoTime, lead_score |-> 3] }

\* the orchestrator after __init__, before start()
InitOrchestrator ==
    /\ is_running = FALSE
    /\ now = 0
    /\ jobs = <<>>
    /\ active_jobs = [i \in JobIds |-> 0]
    /\ job_queue = <<>>
    /\ tasks = <<>>
    /\ workerPc = "idle"
    /\ monitorPc = "idle"
    /\ stopPc = "none"
    /\ sendLog = {}

GateIdle ==
    /\ delayHours = follow_up_delay_hours
    /\ gateIn = None
    /\ gateOut = <<>>

\* ---- the personalization engine: its settings and its state after __init__ ----

\* self.rate_limit_delay = 1.0 s, in half seconds
rate_limit_delay == 2
\* self.request_cache_ttl = 1800 s, in half seconds
request_cache_ttl == 3600
\* self.cache_ttl = 3600 s, in half seconds
cache_ttl == 7200
\* self.max_daily_calls (1000 in the source), kept small
max_daily_calls == 2
\* personalize_email calls made in one run
MaxCalls == 3
\* half-second ticks between two jumps of the clock, and the end of the clock
MaxSmallTicks == 2
MaxEngTime == 3606

\* cache keys (_get_cache_key): one per lead address and email type
Keys == {"k1", "k2"}

NoEntry == [present |-> FALSE, ok |-> FALSE, timestamp |-> NoTime]

\* the engine after __init__; time.time() is far from last_api_call = 0, which
\* the clock's start at rate_limit_delay stands for
EngineIdle ==
    /\ eclock = rate_limit_delay
    /\ last_api_call = 0
    /\ daily_api_calls = 0
    /\ request_cache = [k \in Keys |-> NoEntry]
    /\ personalization_cache = [k \in Keys |-> NoTime]
    /\ calls = <<>>
    /\ genLog = <<>>
    /\ invokedSinceReset = 0

\* no single call is studied
CallIdle ==
    /\ callIn = None
    /\ callOut = <<>>

\* no scoring call is studied
ScoreIdle ==
    /\ scoreIn = None
    /\ mlOut = <<>>
    /\ aiOut = <<>>

\* the record store holds one new lead
Init ==
    /\ InitOrchestrator
    /\ leadRec = [l \in {"l1"} |-> FreshLead]
    /\ leadStatus = [l \in {"l1"} |-> "new"]
    /\ GateIdle
    /\ EngineIdle
    /\ ScoreIdle
    /\ CallIdle

\* ---- the asynchronous operations ----

\* start(): sets the flag and creates the worker and the monitor tasks
Start ==
    /\ workerPc = "idle"
    /\ is_running' = TRUE
    /\ workerPc' = "get"
    /\ monitorPc' = "sleep"
    /\ UNCHANGED <<now, jobs, active_jobs, job_queue, tasks, stopPc, storeVars, logVars, gateVars, engineVars, scoreVars, callVars>>

\* stop(): clears the flag, then polls active_jobs once a second
Stop ==
    /\ workerPc # "idle"
    /\ stopPc = "none"
    /\ is_running' = FALSE
    /\ stopPc' = IF ActiveObjs(active_jobs) = {} THEN "returned" ELSE "waiting"
    /\ UNCHANGED <<now, jobs, active_jobs, job_queue, tasks, workerPc,
                   monitorPc, storeVars, logVars, gateVars, engineVars, scoreVars, callVars>>

\* stop(), after a sleep(1): `while self.active_jobs`
StopPoll ==
    /\ stopPc = "waiting"
    /\ ActiveObjs(active_jobs) = {}
    /\ stopPc' = "returned"
    /\ UNCHANGED <<is_running, now, jobs, active_jobs, job_queue, tasks,
                   workerPc, monitorPc, storeVars,
                   logVars, gateVars, engineVars, scoreVars, callVars>>

\* job_id = f"job_{int(time.time() * 1000)}": two calls in the same
\* millisecond get the same id, later calls a larger one
NextJobIds ==
    IF jobs = <<>> THEN {1}
    ELSE LET last == jobs[Len(jobs)] IN
         {last.job_id + 1} \cup (IF last.created_at = now THEN {last.job_id} ELSE {})

StartCampaign(c) ==
    /\ Len(jobs) < MaxJobs
    /\ \E id \in NextJobIds :
         /\ jobs' = Append(jobs, NewJob(id, c, now))
         /\ job_queue' = Append(job_queue, Len(jobs) + 1)
         /\ active_jobs' = [active_jobs EXCEPT ![id] = Len(jobs) + 1]
    /\ UNCHANGED <<is_running, now, tasks, workerPc, monitorPc, stopPc, storeVars, logVars, gateVars, engineVars, scoreVars, callVars>>

\* the jobs pause_campaign / resume_campaign find: tracked, of the campaign
\* and in the given status, in the order of active_jobs
RECURSIVE Affected(_, _, _)
Affected(c, st, id) ==
    IF id > MaxJobs + 1 THEN <<>>
    ELSE LET j == active_jobs[id] IN
         (IF j # 0 /\ jobs[j].campaign_id = c /\ jobs[j].status = st
          THEN <<j>> ELSE <<>>) \o Affected(c, st, id + 1)

SeqToSet(q) == {q[k] : k \in 1..Len(q)}

\* pause_campaign: every tracked running job of the campaign becomes paused
PauseCampaign(c) ==
    LET hit == Affected(c, "running", 1) IN
    /\ jobs' = [j \in JobIdx |->
                  IF j \in SeqToSet(hit)
                  THEN [jobs[j] EXCEPT !.status = "paused"] ELSE jobs[j]]
    /\ UNCHANGED <<is_running, now, active_jobs, job_queue, tasks, workerPc,
                   monitorPc, stopPc, storeVars, logVars, gateVars, engineVars, scoreVars, callVars>>

\* resume_campaign: every tracked paused job of the campaign becomes pending
\* and is put on the queue
ResumeCampaign(c) ==
    LET hit == Affected(c, "paused", 1) IN
    /\ jobs' = [j \in JobIdx |->
                  IF j \in SeqToSet(hit)
                  THEN [jobs[j] EXCEPT !.status = "pending"] ELSE jobs[j]]
    /\ job_queue' = job_queue \o hit
    /\ UNCHANGED <<is_running, now, active_jobs, tasks, workerPc, monitorPc,
                   stopPc, storeVars, logVars, gateVars, engineVars, scoreVars, callVars>>

\* `while self.is_running`, evaluated when the worker comes back to the loop top
WorkerLoopTop == IF is_running THEN "get" ELSE "exited"

\* WorkerDequeue without the put of line 172: a job taken while the cap is
\* reached is dropped
WorkerDequeueNoPutBack ==
    /\ workerPc = "get"
    /\ job_queue # <<>>
    /\ LET job == Head(job_queue) IN
       IF RunningCount(jobs, active_jobs) >= max_concurrent_campaigns
       THEN /\ job_queue' = Tail(job_queue)
            /\ workerPc' = "backoff"
            /\ UNCHANGED tasks
       ELSE /\ Len(tasks) < MaxTasks
            /\ job_queue' = Tail(job_queue)
            /\ tasks' = Append(tasks, [job |-> job, pc |-> "start", leads |-> <<>>, idx |-> 0])
            /\ workerPc' = WorkerLoopTop
    /\ UNCHANGED <<is_running, now, jobs, active_jobs, monitorPc, stopPc, storeVars, logVars, gateVars, engineVars, scoreVars, callVars>>

\* _process_job_queue: Queue.get returned a job.  create_task only schedules
\* the job's task: its first segment (TaskStart) runs at a later turn of the
\* event loop.  Whether the worker's next Queue.get on a non-empty queue is
\* served before that turn depends on the asyncio version (wait_for always
\* suspends up to Python 3.11 and does not from 3.12 on), so both orders occur
WorkerDequeue ==
    /\ workerPc = "get"
    /\ job_queue # <<>>
    /\ LET job == Head(job_queue) IN
       IF RunningCount(jobs, active_jobs) >= max_concurrent_campaigns
       THEN /\ job_queue' = Append(Tail(job_queue), job)
            /\ workerPc' = "backoff"
            /\ UNCHANGED tasks
       ELSE /\ Len(tasks) < MaxTasks
            /\ job_queue' = Tail(job_queue)
            /\ tasks' = Append(tasks, [job |-> job, pc |-> "start", leads |-> <<>>, idx |-> 0])
            /\ workerPc' = WorkerLoopTop
    /\ UNCHANGED <<is_running, now, jobs, active_jobs, monitorPc, stopPc, storeVars, logVars, gateVars, engineVars, scoreVars, callVars>>

\* _process_job_queue: wait_for timed out on an empty queue, or sleep(5) ended
WorkerWake ==
    /\ \/ workerPc = "get" /\ job_queue = <<>> /\ ~is_running
       \/ workerPc = "backoff"
    /\ workerPc' = WorkerLoopTop
    /\ UNCHANGED <<is_running, now, jobs, active_jobs, job_queue, tasks,
                   monitorPc, stopPc, storeVars, logVars,
                   gateVars, engineVars, scoreVars, callVars>>

\* (current_time - job.started_at).total_seconds() / 3600 > 24
TimedOut(job, t) ==
    /\ job.status = "running"
    /\ job.started_at # NoTime
    /\ t - job.started_at > JobTimeoutHours

\* the jobs a pass of the monitor marks failed: `for job_id, job in
\* list(self.active_jobs.items())` with the test of lines 354-356
MonitorHits == {j \in ActiveObjs(active_jobs) : TimedOut(jobs[j], now)}

\* _monitor_active_jobs: one pass of the loop, or the exit from it
MonitorCheck ==
    /\ monitorPc = "sleep"
    /\ IF ~is_running
       THEN /\ monitorPc' = "exited"
            /\ UNCHANGED <<jobs, active_jobs>>
       ELSE LET hit == MonitorHits IN
            /\ jobs' = [j \in JobIdx |->
                          IF j \in hit
                          THEN [jobs[j] EXCEPT !.status = "failed",
                                               !.error_message = "timeout",
                                               !.completed_at = now]
                          ELSE jobs[j]]
            /\ active_jobs' = [i \in JobIds |->
                                 IF active_jobs[i] \in hit THEN 0 ELSE active_jobs[i]]
            /\ UNCHANGED monitorPc
    /\ UNCHANGED <<is_running, now, job_queue, tasks, workerPc, stopPc,
                   storeVars, logVars, gateVars, engineVars, scoreVars, callVars>>

\* the wall clock advances
Tick ==
    /\ now + TickHours <= MaxTime
    /\ now' = now + TickHours
    /\ UNCHANGED <<is_running, jobs, active_jobs, job_queue, tasks, workerPc,
                   monitorPc, stopPc, storeVars, logVars,
                   gateVars, engineVars, scoreVars, callVars>>

\* ---- the job task (_execute_campaign_job) ----

TaskIdx == 1..Len(tasks)

\* the last position of the batch that position p belongs to:
\* leads[i:i + batch_size] for i in range(0, len(leads), batch_size)
BatchEnd(p, n) == Min(((p - 1) \div batch_size + 1) * batch_size, n)

\* _process_lead_batch: the first lead at positions p..e that passes the gate
\* (0 when there is none); the leads before it are skipped by `continue`
RECURSIVE NextEligible(_, _, _, _)
NextEligible(ls, c, p, e) ==
    IF p > e THEN 0
    ELSE IF ShouldProcessLead(leadRec[ls[p]], c, follow_up_delay_hours, now) THEN p
    ELSE NextEligible(ls, c, p + 1, e)

Finished(t) == [job |-> tasks[t].job, pc |-> "done", leads |-> <<>>, idx |-> 0]

\* the `except Exception` and `finally` blocks of _execute_campaign_job
Failed(t, js) ==
    LET j == tasks[t].job IN
    [task |-> Finished(t),
     jobs |-> [js EXCEPT ![j].status = "failed", ![j].error_message = "error",
                         ![j].completed_at = now],
     active |-> RemoveActive(active_jobs, js[j].job_id)]

\* BatchDone without the pause check of lines 210-212
BatchDoneNoPauseCheck(t, js, e) ==
    [task |-> [tasks[t] EXCEPT !.pc = "sleep", !.idx = e],
     jobs |-> [js EXCEPT ![tasks[t].job].progress.processed = e],
     active |-> active_jobs]

\* the body of the batch loop after the batch at positions ..e is through:
\* progress, the pause check, then the sleep between batches
BatchDone(t, js, e) ==
    LET j == tasks[t].job
        js2 == [js EXCEPT ![j].progress.processed = e] IN
    IF js2[j].status = "paused"
    THEN [task |-> Finished(t), jobs |-> js2,
          active |-> RemoveActive(active_jobs, js2[j].job_id)]
    ELSE [task |-> [tasks[t] EXCEPT !.pc = "sleep", !.idx = e], jobs |-> js2,
          active |-> active_jobs]

\* the task runs on from position p of the batch ending at e, up to its next
\* await: the generation for the next eligible lead, or the sleep
Continue(t, ls, js, p, e) ==
    LET j == tasks[t].job
        q == NextEligible(ls, js[j].campaign_id, p, e) IN
    IF q # 0
    THEN [task |-> [tasks[t] EXCEPT !.pc = "gen", !.idx = q, !.leads = ls],
          jobs |-> js, active |-> active_jobs]
    ELSE LET r == BatchDone(t, js, e) IN
         [r EXCEPT !.task = IF r.task.pc = "sleep"
                            THEN [r.task EXCEPT !.leads = ls] ELSE r.task]

\* `job.status = "completed"` after the batch loop, and the `finally` block
Completed(t, js) ==
    LET j == tasks[t].job IN
    [task |-> Finished(t),
     jobs |-> [js EXCEPT ![j].status = "completed", ![j].completed_at = now],
     active |-> RemoveActive(active_jobs, js[j].job_id)]

\* the task's segment r becomes the new state
Apply(t, r) ==
    /\ tasks' = [tasks EXCEPT ![t] = r.task]
    /\ jobs' = r.jobs
    /\ active_jobs' = r.active

\* db_manager.get_leads_by_user(job.user_id, status="new")
NewLeads ==
    SelectSeq(LeadOrder, LAMBDA l : l \in DOMAIN leadStatus /\ leadStatus[l] = "new")

\* _execute_campaign_job from its first line to its first await that
\* suspends; fetched = FALSE: the campaign is not found or the store raises
TaskStart(t, fetched) ==
    /\ tasks[t].pc = "start"
    /\ LET j == tasks[t].job
           js == [jobs EXCEPT ![j].status = "running", ![j].started_at = now]
           ls == NewLeads
           js2 == [js EXCEPT ![j].progress.total_leads = Len(ls)] IN
       Apply(t, IF ~fetched THEN Failed(t, js)
                ELSE IF ls = <<>> THEN Completed(t, js2)
                ELSE Continue(t, ls, js2, 1, BatchEnd(1, Len(ls))))
    /\ UNCHANGED <<is_running, now, job_queue, workerPc, monitorPc, stopPc, storeVars, sendLog, gateVars, engineVars, scoreVars, callVars>>

\* db_manager.update_lead_status(lead_id, "contacted", {"campaign_id": ...})
MarkContacted(st, l) == [st EXCEPT ![l] = "contacted"]

\* _process_lead_batch after _process_individual_lead has returned for the
\* lead at the task's position: the status update of line 246 (which raises
\* when stored = FALSE), the emails_sent increment, then the next lead
AfterIndividual(t, stored) ==
    LET tk == tasks[t]
        j == tk.job
        js == [jobs EXCEPT ![j].progress.emails_sent = @ + 1] IN
    IF ~stored THEN Failed(t, jobs)
    ELSE Continue(t, tk.leads, js, tk.idx + 1, BatchEnd(tk.idx, Len(tk.leads)))

\* ai_engine.process_lead returns or raises.  ok: go on to the send.
\* ~ok (success = False, or an exception caught at line 328):
\* _process_individual_lead returns without sending
GenReturn(t, ok, stored) ==
    /\ tasks[t].pc = "gen"
    /\ LET l == tasks[t].leads[tasks[t].idx]
           j == tasks[t].job IN
       IF ok
       THEN /\ tasks' = [tasks EXCEPT ![t].pc = "send"]
            /\ UNCHANGED <<jobs, active_jobs, leadStatus>>
       ELSE /\ Apply(t, AfterIndividual(t, stored))
            /\ leadStatus' = IF stored THEN MarkContacted(leadStatus, l) ELSE leadStatus
    /\ UNCHANGED <<is_running, now, job_queue, workerPc, monitorPc, stopPc, leadRec, sendLog, gateVars, engineVars, scoreVars, callVars>>

\* gmail_api.send_email returns.  ok: the email record and the lead update of
\* line 318 are written (recorded = FALSE: the store raises there, caught at
\* line 328); ~ok: only logged.  Then _process_lead_batch goes on
SendReturn(t, ok, recorded, stored) ==
    /\ tasks[t].pc = "send"
    /\ LET l == tasks[t].leads[tasks[t].idx]
           j == tasks[t].job
           marked == (ok /\ recorded) \/ stored IN
       /\ Apply(t, AfterIndividual(t, stored))
       /\ leadStatus' = IF marked THEN MarkContacted(leadStatus, l) ELSE leadStatus
       /\ sendLog' = IF ok THEN sendLog \cup {<<j, l>>} ELSE sendLog
    /\ UNCHANGED <<is_running, now, job_queue, workerPc, monitorPc, stopPc, leadRec, gateVars, engineVars, scoreVars, callVars>>

\* the sleep between two batches ends: the next batch, or the end of the loop
SleepDone(t) ==
    /\ tasks[t].pc = "sleep"
    /\ LET tk == tasks[t]
           n == Len(tk.leads) IN
       Apply(t, IF tk.idx >= n THEN Completed(t, jobs)
                ELSE Continue(t, tk.leads, jobs, tk.idx + 1, BatchEnd(tk.idx + 1, n)))
    /\ UNCHANGED <<is_running, now, job_queue, workerPc, monitorPc, stopPc, storeVars, sendLog, gateVars, engineVars, scoreVars, callVars>>

TaskStarts == \E t \in TaskIdx, fetched \in BOOLEAN : TaskStart(t, fetched)

GenReturns == \E t \in TaskIdx, ok, stored \in BOOLEAN : GenReturn(t, ok, stored)

SendReturns ==
    \E t \in TaskIdx, ok, recorded, stored \in BOOLEAN : SendReturn(t, ok, recorded, stored)

SleepEnds == \E t \in TaskIdx : SleepDone(t)

Next ==
    \/ Start
    \/ Stop
    \/ StopPoll
    \/ \E c \in Campaigns : StartCampaign(c)
    \/ \E c \in Campaigns : PauseCampaign(c)
    \/ \E c \in Campaigns : ResumeCampaign(c)
    \/ WorkerDequeue
    \/ WorkerWake
    \/ MonitorCheck
    \/ Tick
    \/ TaskStarts
    \/ GenReturns
    \/ SendReturns
    \/ SleepEnds

Spec == Init /\ [][Next]_vars

\* ---- one campaign job over a store of three leads ----

\* the record store holds three new leads; the second is any of LeadProfiles
InitBatch ==
    /\ InitOrchestrator
    /\ \E p \in LeadProfiles :
         leadRec = [l \in Leads |-> IF l = "l2" THEN p ELSE FreshLead]
    /\ leadStatus = [l \in Leads |-> "new"]
    /\ GateIdle
    /\ EngineIdle
    /\ ScoreIdle
    /\ CallIdle

\* the one start_campaign call of this study
StartFirstCampaign == jobs = <<>> /\ StartCampaign("c1")

NextBatch ==
    \/ Start
    \/ StartFirstCampaign
    \/ PauseCampaign("c1")
    \/ ResumeCampaign("c1")
    \/ WorkerDequeue
    \/ TaskStarts
    \/ GenReturns
    \/ SendReturns
    \/ SleepEnds

SpecBatch == InitBatch /\ [][NextBatch]_vars

\* ---- the eligibility gate on its own ----

GateDelays == {24, 36, 48}
GateTimes == {0, 12, 20, 24, 36, 59, 60}
GateNow == 60

GateInputs ==
    [lead : [campaign_id : {None, "c1", "c2"},
             last_contacted : {NoTime} \cup GateTimes,
             lead_score : {NoScore, 6, 7, 8}],
     campaign_id : {"c1"},
     now : {GateNow}]

InitGate ==
    /\ InitOrchestrator
    /\ leadRec = [l \in {"l1"} |-> FreshLead]
    /\ leadStatus = [l \in {"l1"} |-> "new"]
    /\ delayHours \in GateDelays
    /\ gateIn \in GateInputs
    /\ gateOut = <<>>
    /\ EngineIdle
    /\ ScoreIdle
    /\ CallIdle

\* one call of _should_process_lead
GateCall ==
    /\ gateOut = <<>>
    /\ gateOut' = <<ShouldProcessLead(gateIn.lead, gateIn.campaign_id, delayHours, gateIn.now)>>
    /\ UNCHANGED <<orchVars, delayHours, gateIn, engineVars, scoreVars, callVars>>

SpecGate == InitGate /\ [][GateCall]_vars

\* ---- what a step of the model does to a job or a lead ----

LeadAt(tk) == tk.leads[tk.idx]

\* task t runs one of its segments in this step
TaskStep(t) == tasks'[t] # tasks[t]

\* the segment ends at the await of ai_engine.process_lead: the generation
\* for the lead at the task's new position has been invoked
InvokesGeneration(t) == TaskStep(t) /\ tasks'[t].pc = "gen"

\* the segment ends at the await of gmail_api.send_email
InvokesSend(t) == tasks[t].pc = "gen" /\ tasks'[t].pc = "send"

\* the segment handles the result of the generation or of the send for a lead
HandlesLead(t) == TaskStep(t) /\ tasks[t].pc \in {"gen", "send"}

\* ---- the claims ----

\* C1: in every reachable state the number of campaign jobs whose status is
\* running is at most max_concurrent_campaigns.
C1_RunningWithinCap ==
    Cardinality({j \in JobIdx : jobs[j].status = "running"}) <= max_concurrent_campaigns

\* C2: once a job's status is completed or failed, it never changes again.
C2_TerminalStatusStays ==
    [][\A j \in JobIdx :
          jobs[j].status \in {"completed", "failed"}
              => jobs'[j].status = jobs[j].status]_vars

LegalTransitions ==
    { <<"pending", "running">>, <<"running", "completed">>,
      <<"running", "failed">>, <<"running", "paused">>,
      <<"paused", "pending">> }

\* the first segment of a task of job j runs in this step: it sets the status
\* to running and may set it once more before it suspends
StartsJob(j) ==
    \E t \in TaskIdx : tasks[t].job = j /\ tasks[t].pc = "start" /\ TaskStep(t)

LegalChange(j) ==
    LET old == jobs[j].status
        new == jobs'[j].status IN
    \/ old = new
    \/ <<old, new>> \in LegalTransitions
    \/ /\ StartsJob(j)
       /\ <<old, "running">> \in LegalTransitions
       /\ <<"running", new>> \in LegalTransitions

\* C3: every change of a job's status is one of pending->running,
\* running->completed, running->failed, running->paused, paused->pending.
C3_OnlyLegalTransitions == [][\A j \in JobIdx : LegalChange(j)]_vars

\* C4: while the orchestrator is started, a job that is running more than 24
\* hours after started_at is one the monitor's pass marks failed.
C4_OverdueJobIsFailedByMonitor ==
    \A j \in JobIdx : is_running /\ TimedOut(jobs[j], now) => j \in MonitorHits

JobOf(t) == tasks[t].job

\* C5 as stated: while a job's status is paused, no lead of that job is
\* processed (no generation, no send, no lead update, no emails_sent increment).
C5_NoLeadWorkWhilePaused ==
    [][\A t \in TaskIdx :
          InvokesGeneration(t) \/ InvokesSend(t) \/ HandlesLead(t)
              => jobs[JobOf(t)].status # "paused"]_vars

\* C5 as amended: a task that reaches the end of a batch while its job is
\* paused ends there; it never goes into the sleep before the next batch.
C5_PausedTaskStopsAtBatchEnd ==
    [][\A t \in TaskIdx :
          TaskStep(t) /\ tasks'[t].pc = "sleep"
              => jobs'[JobOf(t)].status # "paused"]_vars

\* C5 witness: a task has ended at the end of a batch, leaving its job paused
\* with a lead of the fetched list unprocessed.
C5_Witness ==
    \E t \in TaskIdx :
        /\ tasks[t].pc = "done"
        /\ jobs[JobOf(t)].status = "paused"
        /\ jobs[JobOf(t)].progress.processed < jobs[JobOf(t)].progress.total_leads

\* the jobs a call of resume_campaign for job j's campaign would re-queue
Resumable(j) == j \in SeqToSet(Affected(jobs[j].campaign_id, "paused", 1))

\* C6: a paused job can always be resumed: resume_campaign for its campaign
\* finds it, sets it to pending and puts it on the queue.
C6_PausedJobIsResumable ==
    \A j \in JobIdx : jobs[j].status = "paused" => Resumable(j)

\* another task of the same job is working on lead l
InFlightElsewhere(t, l) ==
    \E u \in TaskIdx \ {t} :
        /\ JobOf(u) = JobOf(t)
        /\ tasks[u].pc \in {"gen", "send"}
        /\ LeadAt(tasks[u]) = l

\* C7: no lead is processed twice by one job: no generation is invoked for a
\* lead the job has already sent to, or is working on in another task.
C7_NoLeadTwice ==
    [][\A t \in TaskIdx :
          InvokesGeneration(t)
              => /\ <<JobOf(t), LeadAt(tasks'[t])>> \notin sendLog
                 /\ ~InFlightElsewhere(t, LeadAt(tasks'[t]))]_vars

\* the claim's rule: what _should_process_lead is to return
GateRule(lead, campaign_id, delay, t) ==
    ~ \/ lead.campaign_id # None /\ lead.campaign_id # campaign_id
      \/ lead.last_contacted # NoTime /\ t - lead.last_contacted < delay
      \/ lead.lead_score = NoScore
      \/ lead.lead_score < lead_score_threshold

\* C8: _should_process_lead returns false exactly when the lead is bound to
\* another campaign, or was contacted less than follow_up_delay_hours ago, or
\* scores below the threshold (or the check throws), and true otherwise.
C8_GateMatchesRule ==
    gateOut # <<>>
        => gateOut[1] = GateRule(gateIn.lead, gateIn.campaign_id, delayHours, gateIn.now)

\* C9: a failure while one lead is processed never makes the job failed.
C9_LeadFailureKeepsJobAlive ==
    [][\A t \in TaskIdx :
          HandlesLead(t) /\ jobs[JobOf(t)].status # "failed"
              => jobs'[JobOf(t)].status # "failed"]_vars

\* C10: a lead's status becomes contacted in a job only if the send for that
\* lead returned success in that job.
C10_ContactedOnlyAfterSend ==
    [][\A t \in TaskIdx :
          HandlesLead(t) /\ leadStatus'[LeadAt(tasks[t])] # leadStatus[LeadAt(tasks[t])]
              => <<JobOf(t), LeadAt(tasks[t])>> \in sendLog']_vars

\* the leads for which the send returned success in job j
SentLeads(j) == {l \in Leads : <<j, l>> \in sendLog}

\* C11: at every point of a job's execution progress.emails_sent equals the
\* number of leads of the job whose send succeeded.
C11_EmailsSentCountsSends ==
    \A j \in JobIdx : jobs[j].progress.emails_sent = Cardinality(SentLeads(j))

\* another task of the same job has a lead started and not finished
OtherLeadUnfinished(t) ==
    \E u \in TaskIdx \ {t} : JobOf(u) = JobOf(t) /\ tasks[u].pc \in {"gen", "send"}

\* C12: within one job a lead is started only when every lead the job started
\* before it is finished, and a task moves forward in its fetched list.
C12_LeadsInListOrder ==
    [][\A t \in TaskIdx :
          InvokesGeneration(t)
              => /\ ~OtherLeadUnfinished(t)
                 /\ tasks'[t].idx > tasks[t].idx]_vars

\* ---- the personalization engine: personalize_email and its helpers ----

CallIdx == 1..Len(calls)

\* the sleep(1) of RateLimiter.wait_for_permission, in half seconds
LimiterPoll == 2

\* _get_cached_response: an entry is there and is younger than the ttl
LiveEntry(cache, k, t) ==
    cache[k].present /\ t - cache[k].timestamp < request_cache_ttl

\* CheckRateLimits without the daily limit of lines 652-653
CheckRateLimitsNoDailyLimit(t) ==
    IF t - last_api_call < rate_limit_delay THEN "sleep" ELSE "go"

\* _check_rate_limits up to its await: it raises ("limit"), sleeps or goes on
CheckRateLimits(t) ==
    IF daily_api_calls >= max_daily_calls THEN "limit"
    ELSE IF t - last_api_call < rate_limit_delay THEN "sleep"
    ELSE "go"

\* delay_needed = rate_limit_delay - time_since_last_call
DelayNeeded(t) == rate_limit_delay - (t - last_api_call)

\* _cache_personalization_data: store, then drop the entries past cache_ttl
CachePersonalizationData(pcache, k, t) ==
    LET put == [pcache EXCEPT ![k] = t] IN
    [x \in Keys |-> IF put[x] # NoTime /\ t - put[x] > cache_ttl THEN NoTime ELSE put[x]]

\* _cache_ai_response
CacheAIResponse(cache, k, ok, t) ==
    [cache EXCEPT ![k] = [present |-> TRUE, ok |-> ok, timestamp |-> t]]

\* StoreResponse without the test of response.success
StoreResponseAlways(cache, k, ok, t) == CacheAIResponse(cache, k, ok, t)

\* personalize_email, lines 360-369: only a successful response is cached
StoreResponse(cache, k, ok, t) ==
    IF ok THEN CacheAIResponse(cache, k, ok, t) ELSE cache

\* call i becomes (or, for a new call, starts as) the record r
PutCall(i, r) ==
    IF i = Len(calls) + 1 THEN Append(calls, r) ELSE [calls EXCEPT ![i] = r]

EngineKeeps ==
    UNCHANGED <<daily_api_calls, request_cache, personalization_cache, genLog,
                invokedSinceReset>>

\* the generative service is invoked and answers (GeminiAPI.generate_content
\* calls the client synchronously), then lines 357-371 of personalize_email
Generate(i, r, ok) ==
    /\ calls' = PutCall(i, [r EXCEPT !.pc = "done", !.wake = NoTime,
                                    !.result = IF ok THEN "ok" ELSE "fail"])
    /\ genLog' = Append(genLog, [call |-> i, key |-> r.key, at |-> eclock, ok |-> ok])
    /\ daily_api_calls' = daily_api_calls + 1
    /\ invokedSinceReset' = invokedSinceReset + 1
    /\ request_cache' = StoreResponse(request_cache, r.key, ok, eclock)
    /\ personalization_cache' =
           IF ok THEN CachePersonalizationData(personalization_cache, r.key, eclock)
           ELSE personalization_cache

\* GeminiAPI.generate_content: the limiter it shares with the other users of
\* the service grants the call at once, or makes it wait (held)
GenerateContent(i, r, held, ok) ==
    IF held
    THEN /\ calls' = PutCall(i, [r EXCEPT !.pc = "limiter", !.wake = eclock + LimiterPoll])
         /\ EngineKeeps
    ELSE Generate(i, r, ok)

\* the end of _check_rate_limits (line 662) and the call of line 350
AfterCheck(i, r, held, ok) ==
    /\ last_api_call' = r.cur
    /\ GenerateContent(i, r, held, ok)

\* personalize_email from its first line to its first await that suspends
Personalize(k, held, ok) ==
    /\ Len(calls) < MaxCalls
    /\ LET i == Len(calls) + 1
           r == [key |-> k, pc |-> "enter", cur |-> eclock, wake |-> NoTime,
                 result |-> None]
           check == CheckRateLimits(eclock) IN
       IF LiveEntry(request_cache, k, eclock)
       THEN /\ calls' = Append(calls, [r EXCEPT !.pc = "done", !.result = "hit"])
            /\ UNCHANGED last_api_call /\ EngineKeeps
       ELSE IF check = "limit"
       THEN /\ calls' = Append(calls, [r EXCEPT !.pc = "done", !.result = "limit"])
            /\ UNCHANGED last_api_call /\ EngineKeeps
       ELSE IF check = "sleep"
       THEN /\ calls' = Append(calls, [r EXCEPT !.pc = "sleep",
                                                !.wake = eclock + DelayNeeded(eclock)])
            /\ UNCHANGED last_api_call /\ EngineKeeps
       ELSE AfterCheck(i, r, held, ok)
    /\ UNCHANGED <<eclock, orchVars, gateVars, scoreVars, callVars>>

\* the sleep of _check_rate_limits (line 660) ends
RateSleepDone(i, held, ok) ==
    /\ calls[i].pc = "sleep"
    /\ eclock >= calls[i].wake
    /\ AfterCheck(i, calls[i], held, ok)
    /\ UNCHANGED <<eclock, orchVars, gateVars, scoreVars, callVars>>

\* a sleep of wait_for_permission ends: the limiter is asked again
LimiterDone(i, held, ok) ==
    /\ calls[i].pc = "limiter"
    /\ eclock >= calls[i].wake
    /\ GenerateContent(i, calls[i], held, ok)
    /\ UNCHANGED <<eclock, last_api_call, orchVars, gateVars, scoreVars, callVars>>

\* reset_daily_counter
ResetDailyCounter ==
    /\ daily_api_calls' = 0
    /\ invokedSinceReset' = 0
    /\ UNCHANGED <<eclock, last_api_call, request_cache, personalization_cache,
                   calls, genLog, orchVars, gateVars, scoreVars, callVars>>

\* no call is suspended in a sleep
NoCallWaits == \A i \in CallIdx : calls[i].pc = "done"

\* the clock moves by half a second, or, while nothing is waiting for a
\* timer, by the ttl of the request cache
EngTick(d) ==
    /\ d = 1 => eclock % request_cache_ttl < rate_limit_delay + MaxSmallTicks
    /\ d # 1 => NoCallWaits
    /\ eclock + d <= MaxEngTime
    /\ eclock' = eclock + d
    /\ UNCHANGED <<last_api_call, daily_api_calls, request_cache,
                   personalization_cache, calls, genLog, invokedSinceReset,
                   orchVars, gateVars, scoreVars, callVars>>

Personalizes == \E k \in Keys, held, ok \in BOOLEAN : Personalize(k, held, ok)

RateSleepEnds == \E i \in CallIdx, held, ok \in BOOLEAN : RateSleepDone(i, held, ok)

LimiterSleepEnds == \E i \in CallIdx, held, ok \in BOOLEAN : LimiterDone(i, held, ok)

EngTicks == \E d \in {1, request_cache_ttl} : EngTick(d)

NextEngine ==
    \/ Personalizes
    \/ RateSleepEnds
    \/ LimiterSleepEnds
    \/ ResetDailyCounter
    \/ EngTicks

SpecEngine == Init /\ [][NextEngine]_vars

\* the time at which the call that made invocation a of genLog was made
MadeAt(a) == calls[genLog[a].call].cur

\* C13: of two personalize_email calls for the same key made within
\* request_cache_ttl of each other, one after the other or overlapping, at most
\* one invokes the generative service (a first invocation that failed, which
\* is not cached, aside).
C13_OneGenerationPerKey ==
    \A a, b \in 1..Len(genLog) :
        /\ a < b
        /\ genLog[a].key = genLog[b].key
        /\ MadeAt(b) - MadeAt(a) < request_cache_ttl
        /\ MadeAt(a) - MadeAt(b) < request_cache_ttl
        => ~genLog[a].ok

\* C14: every entry of request_cache holds a response with success = true.
C14_OnlySuccessCached ==
    \A k \in Keys : request_cache[k].present => request_cache[k].ok

\* C14 witness: a call whose generation failed has returned and has left no
\* entry for its key, while another key's successful response is cached.
C14_Witness ==
    \E i \in CallIdx :
        /\ calls[i].result = "fail"
        /\ ~request_cache[calls[i].key].present
        /\ \E k \in Keys : request_cache[k].present

\* a call for key k is made in this step
CallMade(k) ==
    /\ Len(calls') = Len(calls) + 1
    /\ calls'[Len(calls')].key = k

\* C15: a call made when daily_api_calls has reached max_daily_calls and the
\* key has no live cache entry returns the daily-limit failure in the same
\* step, without an invocation, and leaves the counters and both caches alone.
C15_DailyLimitFailsFast ==
    [][\A k \in Keys :
          /\ CallMade(k)
          /\ daily_api_calls >= max_daily_calls
          /\ ~LiveEntry(request_cache, k, eclock)
          => /\ calls'[Len(calls')].pc = "done"
             /\ calls'[Len(calls')].result = "limit"
             /\ UNCHANGED <<genLog, eclock, daily_api_calls, last_api_call,
                            request_cache, personalization_cache>>]_vars

\* C15 witness: a call has returned the daily-limit failure.
C15_Witness ==
    \E i \in CallIdx :
        /\ calls[i].result = "limit"
        /\ daily_api_calls >= max_daily_calls
        /\ ~LiveEntry(request_cache, calls[i].key, calls[i].cur)

\* C16: between two resets daily_api_calls never exceeds max_daily_calls and
\* the generative service is invoked at most max_daily_calls times.
C16_DailyCapHolds ==
    /\ daily_api_calls <= max_daily_calls
    /\ invokedSinceReset <= max_daily_calls

\* C17: two consecutive invocations of the generative service are at least
\* rate_limit_delay apart.
C17_InvocationsSpaced ==
    \A a \in 1..Len(genLog) :
        a + 1 <= Len(genLog) => genLog[a + 1].at - genLog[a].at >= rate_limit_delay

\* ---- lead scoring (src/ai_engine.py) ----
\* Scores and features are in units of 1/10000, confidences in thirtieths.

\* what the scoring code reads of a LeadData: how many of the seven titles of
\* _extract_features occur in job_title, whether one of the six titles of
\* _fallback_scoring occurs ('head' is not among them), the number of pain
\* points, the length of company_description, and whether it holds an
\* industry keyword
ScoreLeads ==
    {l \in [titleHits : {0, 1, 4}, fallbackTitle : BOOLEAN,
            painCount : {0, 1, 3}, descLen : {0, 50, 51, 100},
            industry : BOOLEAN] :
        /\ l.fallbackTitle => l.titleHits >= 1
        /\ l.titleHits > 1 => l.fallbackTitle
        /\ l.industry => l.descLen > 0}

\* self.model and self.scaler after _load_or_create_model: unpickled from the
\* model files (whatever they hold), or created fresh by _create_new_model
\* and never fitted
ModelStates == {"fitted", "unfitted", "none"}
ScalerStates == {"fitted", "unfitted"}

\* predict_proba of a fitted classifier: the probability of the positive class
MLProbs == {0, 3000, 7000, 10000}

\* what generate_content gives analyze_job_title: a failure, or content that
\* is not JSON, JSON that is not an object, an object without decision_score,
\* with a decision_score that is not a number, or with a numeric one
DecisionScores == {0 - 100, 0, 50, 60, 100, 1000}
Responses ==
    {[kind |-> k, decision_score |-> 0] :
        k \in {"failed", "invalid_json", "not_object", "no_score", "bad_score"}}
    \cup {[kind |-> "score", decision_score |-> d] : d \in DecisionScores}

ScoreInputs ==
    [lead : ScoreLeads, model : ModelStates, scaler : ScalerStates,
     prob : MLProbs, response : Responses]

\* _extract_features, with no engagement data
ExtractFeatures(l) ==
    [company_size |-> Min(100 * l.descLen, 10000),
     job_title |-> (10000 * l.titleHits) \div 7,
     industry |-> IF l.industry THEN 10000 ELSE 0,
     pain_points |-> Min(2000 * l.painCount, 10000),
     engagement |-> 0,
     response_rate |-> 5000]

FeatureNames ==
    {"company_size", "job_title", "industry", "pain_points", "engagement",
     "response_rate"}

\* _fallback_scoring
FallbackScoring(l) ==
    Min(5000 + (IF l.fallbackTitle THEN 2000 ELSE 0)
             + (IF l.painCount > 0 THEN 1000 ELSE 0)
             + (IF l.descLen > 50 THEN 1000 ELSE 0),
        10000)

\* _calculate_confidence, in thirtieths
CalculateConfidence(f) ==
    Min(Min(5 * Cardinality({n \in FeatureNames : f[n] # 0}), 30)
          + (IF f.job_title > 5000 THEN 3 ELSE 0)
          + (IF f.pain_points > 5000 THEN 3 ELSE 0),
        30)

\* _generate_recommendations
GenerateRecommendations(score, f) ==
    (IF score < 3000 THEN <<"Low priority lead", "Focus on building awareness">>
     ELSE IF score < 7000 THEN <<"Medium priority", "Monitor engagement">>
     ELSE <<"High priority lead", "Consider personalized demo">>)
    \o (IF f.job_title < 3000 THEN <<"Target higher-level decision makers">> ELSE <<>>)
    \o (IF f.pain_points < 3000 THEN <<"Research company">> ELSE <<>>)
    \o (IF f.engagement < 3000 THEN <<"Improve email personalization">> ELSE <<>>)

\* the LeadScore of the except branch of LeadScoringEngine.score_lead
DefaultLeadScore ==
    [score |-> 5000, factors |-> {}, confidence |-> 0,
     recommendations |-> <<"Unable to score lead due to error">>]

\* scaler.transform or predict_proba of an object that was never fitted raises
ScoringRaises(in) ==
    \/ in.scaler = "unfitted"
    \/ in.model = "unfitted"

\* LeadScoringEngine.score_lead
MLScoreLead(in) ==
    IF ScoringRaises(in) THEN DefaultLeadScore
    ELSE LET f == ExtractFeatures(in.lead)
             score == IF in.model # "none" THEN in.prob
                      ELSE FallbackScoring(in.lead)
         IN [score |-> score,
             factors |-> {<<n, f[n]>> : n \in FeatureNames},
             confidence |-> CalculateConfidence(f),
             recommendations |-> GenerateRecommendations(score, f)]

\* _fallback_job_analysis
FallbackJobAnalysis == [kind |-> "score", decision_score |-> 50]

\* _parse_job_analysis_response: json.loads, whatever value it yields
ParseJobAnalysisResponse(r) ==
    IF r.kind = "invalid_json" THEN FallbackJobAnalysis ELSE r

\* analyze_job_title
AnalyzeJobTitle(r) ==
    IF r.kind = "failed" THEN FallbackJobAnalysis
    ELSE ParseJobAnalysisResponse(r)

\* _enhance_lead_scoring_with_ai: .get on a value that is no object, or the
\* division of a value that is no number, raises into the except branch
EnhanceLeadScoringWithAI(r) ==
    LET a == AnalyzeJobTitle(r)
    IN IF a.kind \in {"not_object", "bad_score"}
       THEN [ai_score |-> 5000, decision_authority |-> 5000,
             company_relevance |-> 5000,
             recommendations |-> <<"AI analysis failed, using fallback scores">>]
       ELSE LET decision_authority ==
                    100 * (IF a.kind = "no_score" THEN 50 ELSE a.decision_score)
            IN [ai_score |-> (4 * decision_authority) \div 10 + 2100 + 3000,
                decision_authority |-> decision_authority,
                company_relevance |-> 7000,
                recommendations |-> <<"Decision authority", "Company relevance",
                                      "Consider targeting higher-level decision makers">>]

\* the blend of AIEngine.score_lead
FinalScore(ml, ai) == (6 * ml + 4 * ai) \div 10

Classification(s) ==
    IF s >= 8000 THEN <<"Classification: Hot", "Priority: Immediate follow-up">>
    ELSE IF s >= 6000 THEN <<"Classification: Warm", "Priority: Standard sequence">>
    ELSE <<"Classification: Cold", "Priority: Nurturing campaign">>

\* AIEngine.score_lead
AIScoreLead(in) ==
    LET ml_score == MLScoreLead(in)
        ai_analysis == EnhanceLeadScoringWithAI(in.response)
        final_score == FinalScore(ml_score.score, ai_analysis.ai_score)
    IN [score |-> final_score,
        factors |-> ml_score.factors
                    \cup {<<"ai_analysis_score", ai_analysis.ai_score>>,
                          <<"decision_authority", ai_analysis.decision_authority>>,
                          <<"company_relevance", ai_analysis.company_relevance>>},
        confidence |-> ml_score.confidence,
        recommendations |-> Classification(final_score)
                            \o ai_analysis.recommendations
                            \o ml_score.recommendations]

\* a lead, an engine and a response of the generative service
InitScore ==
    /\ InitOrchestrator
    /\ leadRec = [l \in {"l1"} |-> FreshLead]
    /\ leadStatus = [l \in {"l1"} |-> "new"]
    /\ GateIdle
    /\ EngineIdle
    /\ scoreIn \in ScoreInputs
    /\ mlOut = <<>>
    /\ aiOut = <<>>
    /\ CallIdle

\* one call of LeadScoringEngine.score_lead
MLScoreCall ==
    /\ mlOut = <<>>
    /\ mlOut' = <<MLScoreLead(scoreIn)>>
    /\ UNCHANGED <<orchVars, gateVars, engineVars, scoreIn, aiOut, callVars>>

\* one call of AIEngine.score_lead
AIScoreCall ==
    /\ aiOut = <<>>
    /\ aiOut' = <<AIScoreLead(scoreIn)>>
    /\ UNCHANGED <<orchVars, gateVars, engineVars, scoreIn, mlOut, callVars>>

NextScore ==
    \/ MLScoreCall
    \/ AIScoreCall

SpecScore == InitScore /\ [][NextScore]_vars

\* C18: the score AIEngine.score_lead returns lies in [0, 1], whatever the
\* ML score and whatever decision_score the job-title analysis carries.
C18_BlendedScoreInUnitInterval ==
    aiOut # <<>> => aiOut[1].score >= 0 /\ aiOut[1].score <= 10000

\* the AI-assisted stage failed: the generative call failed, or its content
\* could not be used
AIStageFailed(in) ==
    in.response.kind \in {"failed", "invalid_json", "not_object", "bad_score"}

\* C19: when the AI-assisted stage fails, AIEngine.score_lead returns exactly
\* the LeadScore LeadScoringEngine.score_lead returns for that lead.
C19_AIFailureGivesMLResult ==
    aiOut # <<>> /\ mlOut # <<>> /\ AIStageFailed(scoreIn) => aiOut[1] = mlOut[1]

\* no fitted classifier is available, or scoring throws
NoFittedClassifier(in) == in.model # "fitted" \/ ScoringRaises(in)

\* the heuristic as the specification words it
HeuristicRule(l) ==
    LET sum == 5000 + (IF l.fallbackTitle THEN 2000 ELSE 0)
                    + (IF l.painCount > 0 THEN 1000 ELSE 0)
                    + (IF l.descLen > 50 THEN 1000 ELSE 0)
    IN IF sum > 10000 THEN 10000 ELSE sum

\* C20: without a fitted classifier, or when scoring throws,
\* LeadScoringEngine.score_lead returns the heuristic score: 0.5, plus 0.2
\* for a decision-maker title, 0.1 for pain points and 0.1 for a company
\* description of more than 50 characters, at most 1.0 and at least 0.5.
C20_HeuristicWithoutModel ==
    mlOut # <<>> /\ NoFittedClassifier(scoreIn) =>
        /\ mlOut[1].score = HeuristicRule(scoreIn.lead)
        /\ mlOut[1].score >= 5000
        /\ mlOut[1].score <= 10000

\* ---- parse_email_response (src/app.py) ----

EmailKeys ==
    {"subject_line", "email_body", "personalization_score",
     "pain_points_addressed", "calendly_integration"}

\* the email_response argument, by what the parser distinguishes:
\*   no_response    email_response is None
\*   no_content     its content is None
\*   empty          its content is ''
\*   blank          its content is white space only
\*   not_text       its content is a non-empty value that is no string
\*   json           text that starts with '{' and is a JSON object
\*   fenced_json    a JSON object inside a ```json fence
\*   fenced_list    a JSON value that is no object inside a ```json fence
\*   brace_invalid  text that starts with '{' and is not valid JSON
\*   key_value      text with subject_line: or email_body: lines
\*   garbage        any other text
\* has: the keys the object or the key:value text carries; body: the value of
\* its email_body
PlainKinds ==
    {"no_response", "no_content", "empty", "blank", "not_text", "fenced_list",
     "brace_invalid", "garbage"}
BodyKinds == {"text", "empty", "null", "number"}
EmailResponses ==
    {[kind |-> k, has |-> {}, body |-> "empty"] : k \in PlainKinds}
    \cup {r \in [kind : {"json", "fenced_json"}, has : SUBSET EmailKeys,
                 body : BodyKinds] :
            "email_body" \notin r.has => r.body = "empty"}
    \cup {r \in [kind : {"key_value"}, has : SUBSET EmailKeys,
                 body : {"text", "empty"}] :
            /\ "email_body" \notin r.has => r.body = "empty"
            /\ r.has \cap {"subject_line", "email_body"} # {}}

\* return None
ReturnsNone == [result |-> "none", keys |-> {}, email_body |-> "none", format |-> "none"]

\* the except branch: str(email_response.content) of a non-empty content
ParseError ==
    [result |-> "dict", keys |-> EmailKeys \cup {"format", "parse_error"},
     email_body |-> "text", format |-> "error"]

Parsed(body, format) ==
    [result |-> "dict", keys |-> EmailKeys \cup {"format"}, email_body |-> body,
     format |-> format]

\* parse_email_response
ParseEmailResponse(r) ==
    CASE r.kind \in {"no_response", "no_content", "empty"} -> ReturnsNone
      [] r.kind \in {"not_text", "brace_invalid", "fenced_list"} -> ParseError
      [] r.kind \in {"json", "fenced_json"} ->
            \* .get('email_body', ''): a JSON null stays None; then the
            \* clean-up of a non-empty body, where .replace of a number raises
            IF r.body = "number" THEN ParseError
            ELSE Parsed(IF r.body = "null" THEN "none" ELSE r.body, "json")
      [] r.kind = "key_value" -> Parsed(r.body, "key_value")
      [] r.kind = "blank" -> Parsed("empty", "raw_text")
      [] OTHER -> Parsed("text", "raw_text")

InitParse ==
    /\ InitOrchestrator
    /\ leadRec = [l \in {"l1"} |-> FreshLead]
    /\ leadStatus = [l \in {"l1"} |-> "new"]
    /\ GateIdle
    /\ EngineIdle
    /\ ScoreIdle
    /\ callIn \in EmailResponses
    /\ callOut = <<>>

\* one call of parse_email_response
ParseCall ==
    /\ callOut = <<>>
    /\ callOut' = <<ParseEmailResponse(callIn)>>
    /\ UNCHANGED <<orchVars, gateVars, engineVars, scoreVars, callIn>>

SpecParse == InitParse /\ [][ParseCall]_vars

\* C21: parse_email_response returns, for every input, a mapping with the
\* five email keys and format, whose email_body is not None; for garbage
\* text the format is raw_text or error.
C21_ParserAlwaysReturnsFullMapping ==
    callOut # <<>> =>
        /\ callOut[1].result = "dict"
        /\ EmailKeys \cup {"format"} \subseteq callOut[1].keys
        /\ callOut[1].email_body # "none"
        /\ callIn.kind = "garbage" => callOut[1].format \in {"raw_text", "error"}

\* ---- ResponseAnalysisEngine.analyze_response (src/ai_engine.py) ----
\* Confidences and engagement scores are in units of 1/10000.

positive_words == {"interested", "yes", "great", "good", "like", "love"}
negative_words == {"not interested", "no", "bad", "dislike", "unfortunately"}

\* an email text, by the listed words that occur in it as substrings:
\* "not interested" holds "interested" and "no", "dislike" holds "like"
EmailTexts ==
    {c \in [pos : SUBSET positive_words, neg : SUBSET negative_words] :
        /\ "not interested" \in c.neg => "interested" \in c.pos /\ "no" \in c.neg
        /\ "dislike" \in c.neg => "like" \in c.pos}

\* what GeminiAPI.analyze_response returns: a failure, or success with
\* content that is not JSON, JSON that is no object, or a JSON object
Sentiments == {"positive", "neutral", "negative", "mixed"}
Intents == {"interested", "needs_more_info", "not_interested", "unknown"}
ConfidenceScores == {0, 50, 100}
AnalysisReplies ==
    {[kind |-> k, sentiment |-> "neutral", intent |-> "unknown",
      confidence_score |-> 0, numeric |-> TRUE, urgent |-> FALSE] :
        k \in {"failed", "invalid_json", "not_object"}}
    \cup [kind : {"object"}, sentiment : Sentiments, intent : Intents,
          confidence_score : ConfidenceScores, numeric : BOOLEAN,
          urgent : BOOLEAN]

AnalysisInputs == [content : EmailTexts, reply : AnalysisReplies]

\* the EmailAnalysis returned when the call reports failure
UnknownAnalysis ==
    [sentiment |-> "unknown", intent |-> "unknown", key_points |-> "none",
     next_action |-> "manual_review", confidence |-> 0, urgency |-> "low",
     engagement_score |-> 0]

\* _fallback_analysis
FallbackAnalysis(c) ==
    LET positive_count == Cardinality(c.pos)
        negative_count == Cardinality(c.neg)
        verdict == IF positive_count > negative_count
                   THEN <<"positive", "interested">>
                   ELSE IF negative_count > positive_count
                   THEN <<"negative", "not_interested">>
                   ELSE <<"neutral", "needs_more_info">>
    IN [sentiment |-> verdict[1], intent |-> verdict[2],
        key_points |-> "Fallback analysis used",
        next_action |-> "manual_review", confidence |-> 3000,
        urgency |-> "low", engagement_score |-> 5000]

\* _calculate_urgency; urgent: a key point holds an urgency keyword
CalculateUrgency(sentiment, intent, urgent) ==
    LET urgency_score ==
            (IF sentiment = "positive" THEN 2
             ELSE IF sentiment = "negative" THEN 1 ELSE 0)
            + (IF intent = "interested" THEN 3
               ELSE IF intent = "needs_more_info" THEN 2 ELSE 0)
            + (IF urgent THEN 2 ELSE 0)
    IN IF urgency_score >= 5 THEN "high"
       ELSE IF urgency_score >= 3 THEN "medium" ELSE "low"

\* _calculate_engagement_score
CalculateEngagementScore(sentiment, intent, confidence) ==
    Min((IF sentiment = "positive" THEN 4000
         ELSE IF sentiment = "neutral" THEN 2000
         ELSE IF sentiment = "negative" THEN 1000 ELSE 0)
        + (IF intent = "interested" THEN 4000
           ELSE IF intent = "needs_more_info" THEN 3000 ELSE 0)
        + (2 * confidence) \div 10,
        10000)

\* ResponseAnalysisEngine.analyze_response
AnalyzeResponse(in) ==
    LET r == in.reply
    IN CASE r.kind = "failed" -> UnknownAnalysis
         [] r.kind = "invalid_json" -> FallbackAnalysis(in.content)
         \* .get of a value that is no object, or float() of a value that is
         \* no number, raises into the outer except branch
         [] r.kind = "not_object" \/ ~r.numeric -> FallbackAnalysis(in.content)
         [] OTHER ->
              LET confidence == 100 * r.confidence_score
              IN [sentiment |-> r.sentiment, intent |-> r.intent,
                  key_points |-> IF r.urgent THEN "urgent" ELSE "plain",
                  next_action |-> "recommended_next_action",
                  confidence |-> confidence,
                  urgency |-> CalculateUrgency(r.sentiment, r.intent, r.urgent),
                  engagement_score |->
                      CalculateEngagementScore(r.sentiment, r.intent, confidence)]

InitAnalysis ==
    /\ InitOrchestrator
    /\ leadRec = [l \in {"l1"} |-> FreshLead]
    /\ leadStatus = [l \in {"l1"} |-> "new"]
    /\ GateIdle
    /\ EngineIdle
    /\ ScoreIdle
    /\ callIn \in AnalysisInputs
    /\ callOut = <<>>

\* one call of analyze_response
AnalysisCall ==
    /\ callOut = <<>>
    /\ callOut' = <<AnalyzeResponse(callIn)>>
    /\ UNCHANGED <<orchVars, gateVars, engineVars, scoreVars, callIn>>

SpecAnalysis == InitAnalysis /\ [][AnalysisCall]_vars

\* the keyword heuristic as the specification words it
HeuristicVerdict(c) ==
    IF Cardinality(c.pos) > Cardinality(c.neg) THEN <<"positive", "interested">>
    ELSE IF Cardinality(c.neg) > Cardinality(c.pos) THEN <<"negative", "not_interested">>
    ELSE <<"neutral", "needs_more_info">>

\* C22: when the generative call reports failure or its output is not valid
\* JSON, analyze_response returns the keyword-heuristic analysis: sentiment
\* and intent by the word counts, confidence 0.3, urgency low, engagement 0.5.
C22_FailureGivesKeywordHeuristic ==
    callOut # <<>> /\ callIn.reply.kind \in {"failed", "invalid_json"} =>
        /\ callOut[1].sentiment = HeuristicVerdict(callIn.content)[1]
        /\ callOut[1].intent = HeuristicVerdict(callIn.content)[2]
        /\ callOut[1].confidence = 3000
        /\ callOut[1].urgency = "low"
        /\ callOut[1].engagement_score = 5000

\* ---- LeadScoringEngine._extract_features with engagement data ----

\* the engagement_data argument: None or an empty map, a map without
\* engagement_score, or a map with a numeric engagement_score (in 1/10000)
EngagementScores == {0 - 5000, 0, 5000, 10000, 15000}
EngagementMaps ==
    {[kind |-> k, engagement_score |-> 0] : k \in {"none", "no_score"}}
    \cup {[kind |-> "score", engagement_score |-> e] : e \in EngagementScores}

\* title_missing: lead_data.job_title is None, so .lower() raises
FeatureInputs ==
    [lead : ScoreLeads, title_missing : BOOLEAN, engagement : EngagementMaps]

\* the order of the components in the vector
feature_columns ==
    <<"company_size", "job_title", "industry", "pain_points", "engagement",
      "response_rate">>

\* _extract_features: the appended scores, or np.zeros when extraction throws
ExtractFeaturesWith(in) ==
    IF in.title_missing THEN [i \in 1..Len(feature_columns) |-> 0]
    ELSE LET f == [ExtractFeatures(in.lead) EXCEPT
                       !.engagement = in.engagement.engagement_score]
         IN [i \in 1..Len(feature_columns) |-> f[feature_columns[i]]]

MaxExtractions == 2

InitFeatures ==
    /\ InitOrchestrator
    /\ leadRec = [l \in {"l1"} |-> FreshLead]
    /\ leadStatus = [l \in {"l1"} |-> "new"]
    /\ GateIdle
    /\ EngineIdle
    /\ ScoreIdle
    /\ callIn \in FeatureInputs
    /\ callOut = <<>>

\* one call of _extract_features
ExtractCall ==
    /\ Len(callOut) < MaxExtractions
    /\ callOut' = Append(callOut, ExtractFeaturesWith(callIn))
    /\ UNCHANGED <<orchVars, gateVars, engineVars, scoreVars, callIn>>

SpecFeatures == InitFeatures /\ [][ExtractCall]_vars

\* C23: _extract_features returns six components, each in [0, 1], and the
\* same inputs give the same vector.
C23_SixFeaturesInUnitInterval ==
    \A a, b \in 1..Len(callOut) :
        /\ Len(callOut[a]) = 6
        /\ \A i \in 1..Len(callOut[a]) : callOut[a][i] >= 0 /\ callOut[a][i] <= 10000
        /\ callOut[a] = callOut[b]

\* ---- the orchestrator again ----

\* C24: once pause_campaign has set a job to paused, the job's task starts no
\* further batch and the job does not become completed, also when the pause
\* arrives during the sleep between two batches or after the last batch.
C24_PausedJobStartsNoBatch ==
    [][\A t \in TaskIdx :
          /\ jobs[JobOf(t)].status = "paused"
          /\ tasks[t].pc = "sleep"
          /\ TaskStep(t)
          => /\ tasks'[t].pc # "gen"
             /\ jobs'[JobOf(t)].status # "completed"]_vars

\* ---- AIEngine.generate_cold_email (src/ai_engine.py) ----

\* the fields of the AIResponse dataclass (src/integrations.py)
AIResponseFields == {"success", "content", "error_message", "tokens_used", "model"}

\* AIResponse(**kwargs): a keyword that is no field of the dataclass raises
\* TypeError
ConstructorRaises(keywords) == ~(keywords \subseteq AIResponseFields)

\* what generate_content returns for the cold-email prompt: a failure, or
\* success with content that is a JSON object (has: its keys, body: the value
\* of its email_body), that is no JSON, or that is JSON but no object
ColdEmailReplies ==
    {[kind |-> k, has |-> {}, body |-> "empty"] :
        k \in {"failed", "invalid_json", "not_object"}}
    \cup {r \in [kind : {"json"}, has : SUBSET EmailKeys, body : BodyKinds] :
            "email_body" \notin r.has => r.body = "empty"}

\* AIEngine._parse_email_response: the keys and the email_body of the
\* mapping it returns (keys = {}: a value that cannot be subscripted by key)
ParseColdEmail(r) ==
    CASE r.kind = "invalid_json" -> [keys |-> EmailKeys, email_body |-> "text"]
      [] r.kind = "not_object" -> [keys |-> {}, email_body |-> "none"]
      [] OTHER -> [keys |-> r.has, email_body |-> r.body]

GenerationFailed == [success |-> FALSE, content |-> "none", error |-> "generation"]

\* the except branch of generate_cold_email
ColdEmailFailed ==
    [success |-> FALSE, content |-> "none", error |-> "Cold email generation failed"]

\* AIEngine.generate_cold_email
GenerateColdEmail(r) ==
    IF r.kind = "failed" THEN GenerationFailed
    ELSE LET parsed == ParseColdEmail(r) IN
         IF \/ ~(EmailKeys \subseteq parsed.keys)
            \/ ConstructorRaises({"success", "content", "metadata"})
         THEN ColdEmailFailed
         ELSE [success |-> TRUE, content |-> parsed.email_body, error |-> "none"]

InitColdEmail ==
    /\ InitOrchestrator
    /\ leadRec = [l \in {"l1"} |-> FreshLead]
    /\ leadStatus = [l \in {"l1"} |-> "new"]
    /\ GateIdle
    /\ EngineIdle
    /\ ScoreIdle
    /\ callIn \in ColdEmailReplies
    /\ callOut = <<>>

\* one call of generate_cold_email
ColdEmailCall ==
    /\ callOut = <<>>
    /\ callOut' = <<GenerateColdEmail(callIn)>>
    /\ UNCHANGED <<orchVars, gateVars, engineVars, scoreVars, callIn>>

SpecColdEmail == InitColdEmail /\ [][ColdEmailCall]_vars

\* the reply is JSON that matches the cold-email schema
MatchesSchema(r) == r.kind = "json" /\ r.has = EmailKeys /\ r.body = "text"

\* C25: when the generative service returns JSON that matches the cold-email
\* schema, generate_cold_email returns success with the parsed email_body as
\* content; it returns a failed response only when the generation failed.
C25_ColdEmailSucceedsOnValidJson ==
    callOut # <<>> =>
        /\ MatchesSchema(callIn) =>
               callOut[1].success /\ callOut[1].content = callIn.body
        /\ ~callOut[1].success => callIn.kind = "failed"

C28_TerminalJobDoesNoWork ==
    [][\A t \in TaskIdx :
          jobs[JobOf(t)].status \in {"failed", "completed"}
              => /\ ~InvokesGeneration(t)
                 /\ ~InvokesSend(t)
                 /\ ~HandlesLead(t)
                 /\ jobs'[JobOf(t)].progress = jobs[JobOf(t)].progress]_vars

\* start_campaign adds a job in this step
AddsJob == Len(jobs') = Len(jobs) + 1

\* C29: the id start_campaign gives a new job is the id of no job that is
\* still tracked in active_jobs, so every queued job keeps its own entry.
C29_NewJobIdIsFree ==
    [][AddsJob => active_jobs[jobs'[Len(jobs')].job_id] = 0]_vars

\* ---- the orchestrator under a fair event loop ----

\* the event loop runs every callback that is ready, every timer fires and
\* every external call returns: each step of the worker, of the monitor, of
\* a job task and of the caller waiting in stop() is taken when it stays
\* possible.  The calls made from outside (start, stop, start_campaign,
\* pause_campaign, resume_campaign) and the clock are under no obligation
Fairness ==
    /\ WF_vars(WorkerDequeue)
    /\ WF_vars(WorkerWake)
    /\ WF_vars(MonitorCheck)
    /\ WF_vars(StopPoll)
    /\ WF_vars(TaskStarts)
    /\ WF_vars(GenReturns)
    /\ WF_vars(SendReturns)
    /\ WF_vars(SleepEnds)

\* the calls made from outside before stop() is called
CampaignCalls ==
    \/ \E c \in Campaigns : StartCampaign(c)
    \/ \E c \in Campaigns : PauseCampaign(c)
    \/ \E c \in Campaigns : ResumeCampaign(c)

CallsBeforeStop == stopPc = "none" /\ CampaignCalls

\* the orchestrator with a caller that makes no further call once it has
\* called stop()
NextStop ==
    \/ Start
    \/ Stop
    \/ StopPoll
    \/ CallsBeforeStop
    \/ WorkerDequeue
    \/ WorkerWake
    \/ MonitorCheck
    \/ Tick
    \/ TaskStarts
    \/ GenReturns
    \/ SendReturns
    \/ SleepEnds

SpecStop == Init /\ [][NextStop]_vars /\ Fairness

\* C27: stop() terminates: once it waits for active_jobs to become empty, it
\* eventually returns.
C27_StopReturns == (stopPc = "waiting") ~> (stopPc = "returned")

\* ---- the orchestrator started and never stopped ----

\* a job put on the queue will find one of the MaxTasks task records
QueueRoom(n) == Len(tasks) + Len(job_queue) + n <= MaxTasks

\* stop() is not called; start_campaign and resume_campaign are called
\* while the task records suffice for the jobs on the queue
NextRun ==
    \/ Start
    \/ \E c \in Campaigns : QueueRoom(1) /\ StartCampaign(c)
    \/ \E c \in Campaigns : PauseCampaign(c)
    \/ \E c \in Campaigns :
          /\ Affected(c, "paused", 1) # <<>>
          /\ QueueRoom(Len(Affected(c, "paused", 1)))
          /\ ResumeCampaign(c)
    \/ WorkerDequeue
    \/ WorkerWake
    \/ MonitorCheck
    \/ Tick
    \/ TaskStarts
    \/ GenReturns
    \/ SendReturns
    \/ SleepEnds

SpecRun == Init /\ [][NextRun]_vars /\ Fairness

Settled(j) == j \in JobIdx /\ jobs[j].status \in {"completed", "failed", "paused"}

====
